---- MODULE Spec2Model ----
(***************************************************************************)
(* Model of reverse_lines (src/src/lib.rs): the ReverseLines iterator that *)
(* reads a seekable byte source backwards in chunks and yields its lines   *)
(* last line first.                                                        *)
(*                                                                         *)
(* The reader is modelled as a state machine.  with_capacity is one        *)
(* action (with a failing variant); a next() call is a NextCall step       *)
(* followed by one step per iteration of the 'outer loop.  Every seek or   *)
(* read on the source may fail.                                            *)
(***************************************************************************)
EXTENDS Integers, Sequences, FiniteSets

\* ---------------------------------------------------------------- bounds
MaxLen == 4       \* longest source, in bytes
MaxCap == 3       \* largest capacity passed to with_capacity
MaxNone == 2      \* next() calls observed after the first None

\* ------------------------------------------------------------- constants
LF_BYTE == 10
CR_BYTE == 13

\* Bytes the sources are built from: the two terminator bytes, an ASCII
\* letter, and the two bytes of U+00E9 (0xC3 0xA9), each of which is
\* invalid UTF-8 on its own.
Alphabet == {LF_BYTE, CR_BYTE, 97, 195, 169}

Sources == UNION {[1..n -> Alphabet] : n \in 0..MaxLen}
Caps == 0..MaxCap

VARIABLES
    src,         \* the bytes of the source (never written)
    cap,         \* the capacity argument of with_capacity
    seek_pos,    \* the source's own cursor (reader.seek / reader.read_exact)
    pc,          \* "new", "ctor_err", "idle" (between calls), "loop" (in next)
    reader_pos,  \* ReverseLines.reader_pos
    buf_size,    \* ReverseLines.buf_size
    is_error,    \* ReverseLines.is_error
    result,      \* the local Vec `result` of the running next() call
    out,         \* the values returned by the next() calls so far
    hist,        \* reader_pos at the return of each of those calls
    io_fail      \* a seek or read failed during some next() call

vars == <<src, cap, seek_pos, pc, reader_pos, buf_size, is_error, result,
          out, hist, io_fail>>

\* --------------------------------------------------------------- helpers
Min(a, b) == IF a < b THEN a ELSE b

RECURSIVE Reverse(_)
Reverse(s) == IF s = <<>> THEN <<>> ELSE Reverse(Tail(s)) \o <<Head(s)>>

\* The values next() returns.
NoneItem == [kind |-> "None", err |-> "", bytes |-> <<>>]
OkItem(line) == [kind |-> "Ok", err |-> "", bytes |-> line]
IoErrItem == [kind |-> "Err", err |-> "Io", bytes |-> <<>>]
InvalidDataItem(line) == [kind |-> "Err", err |-> "InvalidData", bytes |-> line]

\* String::from_utf8: the well-formed UTF-8 byte sequences.
Utf8Width(b) ==
    IF b < 128 THEN 1
    ELSE IF b >= 194 /\ b <= 223 THEN 2
    ELSE IF b >= 224 /\ b <= 239 THEN 3
    ELSE IF b >= 240 /\ b <= 244 THEN 4
    ELSE 0

Utf8SecondOk(b, c) ==
    /\ c >= 128 /\ c <= 191
    /\ (b = 224 => c >= 160)
    /\ (b = 237 => c <= 159)
    /\ (b = 240 => c >= 144)
    /\ (b = 244 => c <= 143)

RECURSIVE Utf8From(_, _)
Utf8From(b, i) ==
    IF i > Len(b) THEN TRUE
    ELSE LET w == Utf8Width(b[i]) IN
         /\ w # 0
         /\ i + w - 1 <= Len(b)
         /\ (w >= 2 => Utf8SecondOk(b[i], b[i + 1]))
         /\ \A k \in 2..(w - 1) : b[i + k] >= 128 /\ b[i + k] <= 191
         /\ Utf8From(b, i + w)

Utf8Valid(b) == Utf8From(b, 1)

\* Lines 180-184: reverse the accumulated bytes and convert to a String.
Emit(res) ==
    LET line == Reverse(res) IN
    IF Utf8Valid(line) THEN OkItem(line) ELSE InvalidDataItem(line)

\* read_to_buffer(size) at cursor pos: the bytes at offsets pos-size..pos-1.
ReadBuf(s, pos, size) == SubSeq(s, pos - size + 1, pos)

\* The source cursor after a successful read_to_buffer(size) that started
\* with the cursor at sp (lines 104-106): seek back by size, read size
\* bytes forward, seek back by size again.
SeekAfterRead_NoRewind(sp, size) == (sp - size) + size

SeekAfterRead(sp, size) == ((sp - size) + size) - size

\* BoundaryOffset without the test that the byte before the LF is a CR.
BoundaryOffset_NoCrTest(buf, idx) ==
    IF idx > 1 THEN idx - 1 ELSE idx

\* Lines 149-154: the offset of the boundary for an LF at index idx of buf
\* (buf is indexed from 0 in the code, from 1 here).
BoundaryOffset(buf, idx) ==
    IF idx > 1 /\ buf[idx] = CR_BYTE THEN idx - 1 ELSE idx

\* Lines 146-170: scan buf from index idx down to 0, pushing bytes on res
\* until an LF is found.
RECURSIVE Scan(_, _, _)
Scan(buf, idx, res) ==
    IF idx < 0 THEN [found |-> FALSE, offset |-> 0, res |-> res]
    ELSE IF buf[idx + 1] = LF_BYTE
         THEN [found |-> TRUE, offset |-> BoundaryOffset(buf, idx), res |-> res]
         ELSE Scan(buf, idx - 1, Append(res, buf[idx + 1]))

\* ReadStep with the cursor left after the LF instead of on it.
ReadStep_PastLF(s, pos, bs, res) ==
    LET size == Min(bs, pos)
        buf == ReadBuf(s, pos, size)
        sc == Scan(buf, size - 1, res)
    IN [found |-> sc.found,
        offset |-> sc.offset + (IF sc.found THEN 1 ELSE 0),
        pos |-> (pos - size) + sc.offset + (IF sc.found THEN 1 ELSE 0),
        res |-> sc.res]

\* ReadStep with `offset -= 1` applied to every LF found, whatever idx is.
ReadStep_AlwaysSkip(s, pos, bs, res) ==
    LET size == Min(bs, pos)
        buf == ReadBuf(s, pos, size)
        sc == Scan(buf, size - 1, res)
    IN [found |-> sc.found,
        offset |-> sc.offset - (IF sc.found THEN 1 ELSE 0),
        pos |-> (pos - size) + sc.offset - (IF sc.found THEN 1 ELSE 0),
        res |-> sc.res]

ReadStep(s, pos, bs, res) ==
    LET size == Min(bs, pos)
        buf == ReadBuf(s, pos, size)
        sc == Scan(buf, size - 1, res)
    IN [found |-> sc.found,
        offset |-> sc.offset,
        pos |-> (pos - size) + sc.offset,
        res |-> sc.res]

\* Lines 79-95: reader_pos after the trailing-terminator adjustment.
EndAdjust(s) ==
    LET n == Len(s)
        end_size == Min(n, 2)
        end_buf == ReadBuf(s, n, end_size)
        p0 == n - end_size
    IN IF end_size = 1
       THEN (IF end_buf[1] # LF_BYTE THEN p0 + 1 ELSE p0)
       ELSE IF end_size = 2
       THEN p0 + (IF end_buf[1] # CR_BYTE THEN 1 ELSE 0)
               + (IF end_buf[2] # LF_BYTE THEN 1 ELSE 0)
       ELSE p0

\* Lines 83-95: the number of move_reader_position(1) calls (each a seek
\* forward by one) with_capacity makes on s.
EndMoves(s) ==
    LET n == Len(s) IN
    IF n = 1 THEN (IF s[1] # LF_BYTE THEN 1 ELSE 0)
    ELSE IF n >= 2
    THEN (IF s[n - 1] # CR_BYTE THEN 1 ELSE 0)
           + (IF s[n] # LF_BYTE THEN 1 ELSE 0)
    ELSE 0

\* One whole next() call without I/O failure, from cursor pos with res
\* accumulated so far (lines 131-184): the value returned and the cursor.
RECURSIVE NextFrom(_, _, _, _)
NextFrom(s, pos, bs, res) ==
    IF pos < 1
    THEN [item |-> IF res # <<>> THEN Emit(res) ELSE NoneItem, pos |-> pos]
    ELSE LET st == ReadStep(s, pos, bs, res) IN
         IF st.found
         THEN [item |-> Emit(st.res), pos |-> st.pos]
         ELSE NextFrom(s, st.pos, bs, st.res)

\* The calls of `for line in reverse_lines` (lines 22-24): next() until None.
RECURSIVE TraceFrom(_, _, _)
TraceFrom(s, pos, bs) ==
    LET r == NextFrom(s, pos, bs, <<>>) IN
    IF r.item.kind = "None" THEN <<>>
    ELSE <<r>> \o TraceFrom(s, r.pos, bs)

\* with_capacity(c, s) followed by next() until None, for c >= 1.
RunTrace(s, c) == TraceFrom(s, EndAdjust(s), c)

RunItems(s, c) == [i \in 1..Len(RunTrace(s, c)) |-> RunTrace(s, c)[i].item]

NoneCount(o) == Cardinality({i \in 1..Len(o) : o[i].kind = "None"})

\* ------------------------------------------------------------------ Init
Init ==
    /\ src \in Sources
    /\ cap \in Caps
    /\ seek_pos = 0
    /\ pc = "new"
    /\ reader_pos = 0
    /\ buf_size = 0
    /\ is_error = FALSE
    /\ result = <<>>
    /\ out = <<>>
    /\ hist = <<>>
    /\ io_fail = FALSE

\* --------------------------------------------------------------- actions
\* with_capacity(cap, reader) returning Ok (lines 65-98).
WithCapacity ==
    /\ pc = "new"
    /\ pc' = "idle"
    /\ reader_pos' = EndAdjust(src)
    /\ seek_pos' = SeekAfterRead(Len(src), Min(Len(src), 2)) + EndMoves(src)
    /\ buf_size' = cap
    /\ is_error' = FALSE
    /\ UNCHANGED <<src, cap, result, out, hist, io_fail>>

\* WithCapacityErr with a failed move_reader_position ignored: the reader
\* is returned with the adjustment half done.
WithCapacityErr_HalfInit ==
    /\ pc = "new"
    /\ \E op \in 1..(4 + EndMoves(src)) :
          LET n == Len(src)
              e == Min(n, 2)
          IN /\ seek_pos' = CASE op = 1 -> 0
                              [] op = 2 -> n
                              [] op = 3 -> n - e
                              [] op = 4 -> n
                              [] op = 5 -> n - e
                              [] op = 6 -> n - e + 1
             /\ IF op >= 5
                THEN /\ pc' = "idle"
                     /\ reader_pos' = seek_pos'
                     /\ buf_size' = cap
                ELSE /\ pc' = "ctor_err"
                     /\ UNCHANGED <<reader_pos, buf_size>>
    /\ UNCHANGED <<src, cap, is_error, result, out, hist, io_fail>>

\* with_capacity returning Err: the seek to the end (op 1), one of the three
\* operations of read_to_buffer (2..4) or one of the move_reader_position
\* seeks (5, 6) fails; `?` returns the error and no reader is built.
WithCapacityErr ==
    /\ pc = "new"
    /\ \E op \in 1..(4 + EndMoves(src)) :
          LET n == Len(src)
              e == Min(n, 2)
          IN seek_pos' = CASE op = 1 -> 0
                           [] op = 2 -> n
                           [] op = 3 -> n - e
                           [] op = 4 -> n
                           [] op = 5 -> n - e
                           [] op = 6 -> n - e + 1
    /\ pc' = "ctor_err"
    /\ UNCHANGED <<src, cap, reader_pos, buf_size, is_error, result, out,
                   hist, io_fail>>

\* Entry of next() (lines 125-129).
NextCall ==
    /\ pc = "idle"
    /\ NoneCount(out) < MaxNone
    /\ IF is_error
       THEN /\ out' = Append(out, NoneItem)
            /\ hist' = Append(hist, reader_pos)
            /\ UNCHANGED <<pc, result>>
       ELSE /\ pc' = "loop"
            /\ result' = <<>>
            /\ UNCHANGED <<out, hist>>
    /\ UNCHANGED <<src, cap, seek_pos, reader_pos, buf_size, is_error, io_fail>>

\* NextAtStart without the test `!result.is_empty()`: the accumulated
\* bytes are converted even when there are none.
NextAtStart_EmitAlways ==
    /\ pc = "loop"
    /\ reader_pos < 1
    /\ out' = Append(out, Emit(result))
    /\ hist' = Append(hist, reader_pos)
    /\ pc' = "idle"
    /\ result' = <<>>
    /\ UNCHANGED <<src, cap, seek_pos, reader_pos, buf_size, is_error, io_fail>>

\* NextAtStart with the test reader_pos <= 1 in place of reader_pos < 1.
NextAtStart_OffByOne ==
    /\ pc = "loop"
    /\ reader_pos <= 1
    /\ out' = Append(out, IF result # <<>> THEN Emit(result) ELSE NoneItem)
    /\ hist' = Append(hist, reader_pos)
    /\ pc' = "idle"
    /\ result' = <<>>
    /\ UNCHANGED <<src, cap, seek_pos, reader_pos, buf_size, is_error, io_fail>>

\* Top of 'outer with reader_pos < 1 (lines 132-138): break and convert the
\* accumulated bytes, or return None.
NextAtStart ==
    /\ pc = "loop"
    /\ reader_pos < 1
    /\ out' = Append(out, IF result # <<>> THEN Emit(result) ELSE NoneItem)
    /\ hist' = Append(hist, reader_pos)
    /\ pc' = "idle"
    /\ result' = <<>>
    /\ UNCHANGED <<src, cap, seek_pos, reader_pos, buf_size, is_error, io_fail>>

\* NextRead with a decoding failure setting the fault flag.
NextRead_FaultOnDecode ==
    /\ pc = "loop"
    /\ reader_pos >= 1
    /\ LET st == ReadStep(src, reader_pos, buf_size, result) IN
       /\ reader_pos' = st.pos
       /\ seek_pos' = SeekAfterRead(seek_pos, Min(buf_size, reader_pos))
                        + st.offset
       /\ IF st.found
          THEN /\ out' = Append(out, Emit(st.res))
               /\ hist' = Append(hist, st.pos)
               /\ pc' = "idle"
               /\ result' = <<>>
               /\ is_error' = (is_error \/ Emit(st.res).kind = "Err")
          ELSE /\ result' = st.res
               /\ UNCHANGED <<out, hist, pc, is_error>>
    /\ UNCHANGED <<src, cap, buf_size, io_fail>>

\* One iteration of 'outer in which every seek and read succeeds
\* (lines 142-170, then 180-184 when an LF was found).
NextRead ==
    /\ pc = "loop"
    /\ reader_pos >= 1
    /\ LET st == ReadStep(src, reader_pos, buf_size, result) IN
       /\ reader_pos' = st.pos
       /\ seek_pos' = SeekAfterRead(seek_pos, Min(buf_size, reader_pos))
                        + st.offset
       /\ IF st.found
          THEN /\ out' = Append(out, Emit(st.res))
               /\ hist' = Append(hist, st.pos)
               /\ pc' = "idle"
               /\ result' = <<>>
          ELSE /\ result' = st.res
               /\ UNCHANGED <<out, hist, pc>>
    /\ UNCHANGED <<src, cap, buf_size, is_error, io_fail>>

\* NextReadErr without `self.is_error = true`.
NextReadErr_NoFault ==
    /\ pc = "loop"
    /\ reader_pos >= 1
    /\ LET size == Min(buf_size, reader_pos) IN
       \E op \in 1..3 :
          seek_pos' \in CASE op = 1 -> {seek_pos}
                          [] op = 2 -> (seek_pos - size)..seek_pos
                          [] op = 3 -> {seek_pos}
    /\ io_fail' = TRUE
    /\ out' = Append(out, IoErrItem)
    /\ hist' = Append(hist, reader_pos)
    /\ pc' = "idle"
    /\ result' = <<>>
    /\ UNCHANGED <<src, cap, reader_pos, buf_size, is_error>>

\* read_to_buffer fails (lines 100-106, 173-176): its first seek (op 1), its
\* read_exact (op 2, which may have consumed any part of the chunk) or its
\* second seek (op 3).  reader_pos is not updated.
NextReadErr ==
    /\ pc = "loop"
    /\ reader_pos >= 1
    /\ LET size == Min(buf_size, reader_pos) IN
       \E op \in 1..3 :
          seek_pos' \in CASE op = 1 -> {seek_pos}
                          [] op = 2 -> (seek_pos - size)..seek_pos
                          [] op = 3 -> {seek_pos}
    /\ is_error' = TRUE
    /\ io_fail' = TRUE
    /\ out' = Append(out, IoErrItem)
    /\ hist' = Append(hist, reader_pos)
    /\ pc' = "idle"
    /\ result' = <<>>
    /\ UNCHANGED <<src, cap, reader_pos, buf_size>>

\* The chunk was read and holds an LF, and the seek to the boundary fails
\* (lines 156, 162-165).
NextSeekErr ==
    /\ pc = "loop"
    /\ reader_pos >= 1
    /\ LET size == Min(buf_size, reader_pos)
           st == ReadStep(src, reader_pos, buf_size, result)
       IN /\ st.found
          /\ reader_pos' = reader_pos - size
          /\ seek_pos' = SeekAfterRead(seek_pos, size)
    /\ is_error' = TRUE
    /\ io_fail' = TRUE
    /\ out' = Append(out, IoErrItem)
    /\ hist' = Append(hist, reader_pos')
    /\ pc' = "idle"
    /\ result' = <<>>
    /\ UNCHANGED <<src, cap, buf_size>>

Next ==
    \/ WithCapacity
    \/ WithCapacityErr
    \/ NextCall
    \/ NextAtStart
    \/ NextRead
    \/ NextReadErr
    \/ NextSeekErr

Spec == Init /\ [][Next]_vars

TypeOK ==
    /\ src \in Sources
    /\ cap \in Caps
    /\ seek_pos \in 0..Len(src)
    /\ pc \in {"new", "ctor_err", "idle", "loop"}
    /\ reader_pos \in 0..Len(src)
    /\ buf_size \in Caps
    /\ is_error \in BOOLEAN
    /\ io_fail \in BOOLEAN
    /\ Len(out) = Len(hist)
\* ------------------------------------------------- vocabulary of the claims
IsSome(it) == it.kind # "None"

\* The items yielded so far (the returned values other than None).
Yielded == SelectSeq(out, IsSome)

\* A next() call has returned None.
Done == pc = "idle" /\ out # <<>> /\ out[Len(out)] = NoneItem

\* A complete iteration, with a chunk size >= 1 and no I/O failure.
CleanDone == Done /\ ~io_fail /\ buf_size >= 1

\* The pieces of s between its LF bytes.
RECURSIVE SplitAcc(_, _, _)
SplitAcc(s, i, cur) ==
    IF i > Len(s) THEN <<cur>>
    ELSE IF s[i] = LF_BYTE THEN <<cur>> \o SplitAcc(s, i + 1, <<>>)
    ELSE SplitAcc(s, i + 1, Append(cur, s[i]))

SplitLF(s) == SplitAcc(s, 1, <<>>)

StripCR(line) ==
    IF line # <<>> /\ line[Len(line)] = CR_BYTE
    THEN SubSeq(line, 1, Len(line) - 1) ELSE line

\* The terminator-delimited segments of s, a terminator being LF or CR LF.
Segments(s) ==
    LET p == SplitLF(s) IN
    [k \in 1..Len(p) |-> IF k < Len(p) THEN StripCR(p[k]) ELSE p[k]]

\* The lines of s: its segments, without the empty one that follows a
\* trailing terminator.
ExpectedLines(s) ==
    LET g == Segments(s) IN
    IF g[Len(g)] = <<>> THEN SubSeq(g, 1, Len(g) - 1) ELSE g

OkItems(lines) == [k \in 1..Len(lines) |-> OkItem(lines[k])]

\* The machine and the functional form of the iteration agree.
RunAgrees == CleanDone => Yielded = RunItems(src, buf_size)
\* ------------------------------------------------------------------ claims
NoTrailingLF(s) == s # <<>> /\ s[Len(s)] # LF_BYTE

AllValid(lines) == \A k \in 1..Len(lines) : Utf8Valid(lines[k])

\* C1 (round trip): a source that is one or more valid UTF-8 lines joined
\* with LF, the last one non-empty, read with a chunk size >= 1 and without
\* I/O failure, yields exactly those lines in reverse order, each as Ok.
C1_RoundTrip ==
    (CleanDone /\ NoTrailingLF(src) /\ AllValid(SplitLF(src)))
        => Yielded = Reverse(OkItems(SplitLF(src)))

\* C2 (chunk size): a complete iteration yields the same items as the
\* iteration of the same source with any other chunk size >= 1, a chunk
\* size of 1 and one larger than the source included.
C2_ChunkSizeIndependent ==
    CleanDone =>
        \A c2 \in (1..MaxCap) \cup {Len(src) + 1} :
            Yielded = RunItems(src, c2)

\* Every LF of s is the second byte of a CR LF pair.
OnlyCRLF(s) == \A i \in 1..Len(s) :
    s[i] = LF_BYTE => (i > 1 /\ s[i - 1] = CR_BYTE)

\* No LF of s is the second byte of a CR LF pair.
OnlyLF(s) == \A i \in 1..Len(s) :
    s[i] = LF_BYTE => ~(i > 1 /\ s[i - 1] = CR_BYTE)

\* s with every CR LF pair replaced by LF.
RECURSIVE CrlfToLf(_)
CrlfToLf(s) ==
    IF s = <<>> THEN <<>>
    ELSE IF Len(s) >= 2 /\ s[1] = CR_BYTE /\ s[2] = LF_BYTE
         THEN <<LF_BYTE>> \o CrlfToLf(SubSeq(s, 3, Len(s)))
         ELSE <<s[1]>> \o CrlfToLf(Tail(s))

\* C3 (CRLF and LF indistinguishable): a source obtained from a source with
\* LF terminators only by replacing every LF by CR LF yields the same items
\* as that source, for every chunk size >= 1.
C3_CrlfSameAsLf ==
    (CleanDone /\ OnlyCRLF(src) /\ OnlyLF(CrlfToLf(src)))
        => Yielded = RunItems(CrlfToLf(src), buf_size)

\* The bytes of s after its last LF.
LastSegment(s) == SplitLF(s)[Len(SplitLF(s))]

\* C4 (no trailing terminator): for a non-empty source whose last byte is
\* not LF, the first next() call returns Ok with exactly the bytes after
\* the last LF of the source.
C4_FinalLineExact ==
    (/\ pc = "idle" /\ buf_size >= 1 /\ ~io_fail /\ out # <<>>
     /\ NoTrailingLF(src) /\ Utf8Valid(LastSegment(src)))
        => out[1] = OkItem(LastSegment(src))

LFCount(s) == Cardinality({i \in 1..Len(s) : s[i] = LF_BYTE})

\* s ends with a terminator that does not directly follow another one.
SingleTrailingTerminator(s) ==
    LET g == Segments(s) IN
    /\ s # <<>> /\ s[Len(s)] = LF_BYTE
    /\ (Len(g) >= 3 => g[Len(g) - 1] # <<>>)

\* C5 (trailing terminator): for a source that ends with a single trailing
\* terminator the number of items yielded before None is the number of
\* terminators of the source.
C5_ItemCountIsTerminatorCount ==
    (CleanDone /\ SingleTrailingTerminator(src))
        => Len(Yielded) = LFCount(src)
\* reader_pos when the call that returned out[i] started.
PosBefore(i) == IF i = 1 THEN EndAdjust(src) ELSE hist[i - 1]

\* C6 (I/O failure is terminal): once a seek or read has failed during a
\* next() call, that call has returned Some(Err) with the fault flag set,
\* no call before it returned an I/O error, and every later call returned
\* None and left the cursor where it was: nothing is yielded after the
\* error.
C6_IoFailureTerminal ==
    io_fail =>
        /\ pc = "idle"
        /\ is_error
        /\ \E i \in 1..Len(out) :
             /\ out[i] = IoErrItem
             /\ \A j \in 1..(i - 1) : out[j].err # "Io" /\ out[j] # NoneItem
             /\ \A j \in (i + 1)..Len(out) :
                   out[j] = NoneItem /\ hist[j] = hist[i]

\* C6 witness: a call that had accumulated bytes of a line failed, and a
\* later call has returned.
C6_Witness ==
    /\ io_fail
    /\ \E i \in 1..(Len(out) - 1) :
         /\ out[i] = IoErrItem
         /\ hist[i] < PosBefore(i)
         /\ \A k \in (hist[i] + 1)..PosBefore(i) : src[k] # LF_BYTE

\* s with every byte outside ASCII replaced by the letter 'a'.
Sanitize(s) == [k \in 1..Len(s) |-> IF s[k] >= 128 THEN 97 ELSE s[k]]

\* C7 (decoding failure is local): without I/O failure the fault flag stays
\* false, and every call returns with the cursor where the iteration of the
\* source with its non-ASCII bytes replaced by valid ones leaves it,
\* returning that iteration's line when the bytes recovered are valid UTF-8
\* and Err(InvalidData) for the same span when they are not.
C7_DecodeErrorLocal ==
    (pc = "idle" /\ buf_size >= 1 /\ ~io_fail) =>
        LET ref == RunTrace(Sanitize(src), buf_size)
            n == Len(Yielded)
        IN /\ ~is_error
           /\ n <= Len(ref)
           /\ (Done => n = Len(ref))
           /\ \A i \in 1..n :
                /\ hist[i] = ref[i].pos
                /\ Sanitize(out[i].bytes) = ref[i].item.bytes
                /\ out[i].kind = IF Utf8Valid(out[i].bytes) THEN "Ok" ELSE "Err"
                /\ out[i].err = IF Utf8Valid(out[i].bytes) THEN "" ELSE "InvalidData"

\* C7 witness: a line failed to decode and an earlier line of the source was
\* yielded after it.
C7_Witness ==
    /\ ~is_error
    /\ \E i \in 1..Len(out) : \E j \in (i + 1)..Len(out) :
         out[i].err = "InvalidData" /\ out[j].kind = "Ok"

\* C8 (fused): every call after one that returned None returned None, and a
\* call returned None only with the cursor at 0 or after an I/O error.
C8_Fused ==
    \A i \in 1..Len(out) :
        out[i] = NoneItem =>
            /\ \A j \in (i + 1)..Len(out) : out[j] = NoneItem
            /\ (hist[i] = 0 \/ \E k \in 1..(i - 1) : out[k] = IoErrItem)

\* C8 witness: the source was exhausted without a fault and next() was
\* called again after the first None.
C8_Witness ==
    /\ ~is_error
    /\ Len(out) >= 3
    /\ out[1].kind = "Ok"
    /\ out[Len(out) - 1] = NoneItem
    /\ out[Len(out)] = NoneItem

\* C9 (finite): with a chunk size >= 1 every iteration of the loop of next()
\* either returns or moves the cursor strictly towards 0, and the items
\* yielded never outnumber the bytes of the source.
C9_Finite ==
    [][/\ (pc = "loop" /\ buf_size >= 1)
            => (pc' = "idle" \/ reader_pos' < reader_pos)
       /\ Cardinality({i \in 1..Len(out') : out'[i] # NoneItem}) <= Len(src)
      ]_vars

\* C9 witness: a complete iteration in which a line longer than the chunk
\* size, read in several iterations of the loop, was yielded.
C9_Witness ==
    /\ buf_size >= 1
    /\ Done
    /\ \E i \in 1..Len(out) : Len(out[i].bytes) > buf_size

\* C10 (blank lines): every empty segment between two consecutive
\* terminators yields Ok("") at the mirrored position of the output.
C10_BlankLines ==
    CleanDone =>
        LET g == Segments(src)
            m == Len(ExpectedLines(src))
        IN \A k \in 2..(Len(g) - 1) :
              g[k] = <<>> =>
                  /\ m - k + 1 <= Len(Yielded)
                  /\ Yielded[m - k + 1] = OkItem(<<>>)

\* C10 holds of the sources that have no CR LF pair.
C10_BlankLinesLfOnly == OnlyLF(src) => C10_BlankLines
\* Every CR of s is immediately followed by an LF.
EveryCrBeforeLf(s) == \A i \in 1..Len(s) :
    s[i] = CR_BYTE => (i < Len(s) /\ s[i + 1] = LF_BYTE)

Contains(line, b) == \E k \in 1..Len(line) : line[k] = b

\* C11 (terminators absorbed): with a chunk size >= 1 no yielded line
\* contains an LF byte, and when every CR of the source is immediately
\* followed by an LF no yielded line contains a CR byte either.
C11_TerminatorsAbsorbed ==
    buf_size >= 1 =>
        \A i \in 1..Len(out) :
            /\ ~Contains(out[i].bytes, LF_BYTE)
            /\ (EveryCrBeforeLf(src) => ~Contains(out[i].bytes, CR_BYTE))

\* The part of C11 about LF holds of every source.
C11_NoLfInLines ==
    \A i \in 1..Len(out) : ~Contains(out[i].bytes, LF_BYTE)

\* A reader has been returned by with_capacity.
Constructed == pc \in {"idle", "loop"}

\* C12 (empty source): a reader constructed over a source of length 0 has
\* reader_pos = 0 and no fault, and every next() call on it returns None.
C12_EmptySource ==
    (Constructed /\ src = <<>>) =>
        /\ reader_pos = 0
        /\ ~is_error
        /\ \A i \in 1..Len(out) : out[i] = NoneItem

\* C12 witness: next() was called twice on a reader over the empty source.
C12_Witness == Constructed /\ src = <<>> /\ Len(out) = 2

\* The index (from 0) of the last LF of buf, or -1.
RECURSIVE LastLF(_, _)
LastLF(buf, idx) ==
    IF idx < 0 THEN -1
    ELSE IF buf[idx + 1] = LF_BYTE THEN idx ELSE LastLF(buf, idx - 1)

\* C13 (CR before LF): when an iteration of next() finds the LF at index
\* idx >= 1 of its chunk, the byte at idx - 1 is a CR and the boundary seek
\* succeeds, the cursor is left on the CR, at idx - 1 from the start of the
\* chunk.
C13_CrExcluded ==
    [][(pc = "loop" /\ reader_pos >= 1 /\ buf_size >= 1 /\ io_fail' = io_fail)
         => LET size == Min(buf_size, reader_pos)
                buf == ReadBuf(src, reader_pos, size)
                idx == LastLF(buf, size - 1)
            IN (idx >= 1 /\ buf[idx] = CR_BYTE)
                  => reader_pos' = (reader_pos - size) + (idx - 1)
      ]_vars

\* C14 (cursor bounds): in every state 0 <= reader_pos <= source length, the
\* cursor of the source stays in the same range, and the boundary offset the
\* next iteration computes is not negative.
C14_CursorInBounds ==
    /\ reader_pos >= 0
    /\ reader_pos <= Len(src)
    /\ seek_pos >= 0
    /\ seek_pos <= Len(src)
    /\ (pc = "loop" /\ reader_pos >= 1)
          => ReadStep(src, reader_pos, buf_size, result).offset >= 0

\* C14 witness: a boundary was found at a CR LF pair, offset reduced by one,
\* and a call failed afterwards.
C14_Witness ==
    /\ io_fail
    /\ Len(out) >= 2
    /\ out[1].kind = "Ok"
    /\ hist[1] >= 1
    /\ src[hist[1] + 1] = CR_BYTE

\* C15 (cursor synchronisation): on a reader that is not faulted the cursor
\* of the source equals reader_pos, between calls and between the
\* iterations of a call.
C15_CursorInSync ==
    (Constructed /\ ~is_error) => seek_pos = reader_pos

\* C15 witness: the first call read whole chunks of the line and then a
\* chunk with the LF at a non-zero index, and repositioned to it.
C15_Witness ==
    /\ pc = "idle"
    /\ ~is_error
    /\ Len(out) = 1
    /\ out[1].kind = "Ok"
    /\ buf_size >= 2
    /\ out[1].bytes # <<>>
    /\ Len(out[1].bytes) % buf_size = 0
    /\ reader_pos >= buf_size - 1
    /\ reader_pos + 1 + Len(out[1].bytes) = EndAdjust(src)

\* C16 (chunk size positive): every reader returned by with_capacity has
\* buf_size > 0.
C16_ChunkSizePositive == Constructed => buf_size > 0

\* The part of C16 about buf_size being fixed holds.
C16_ChunkSizeFixed == [][Constructed => buf_size' = buf_size]_vars

\* C17 (construction is all or nothing): when with_capacity returned Err no
\* reader exists (no field was set, no call was made), and a reader that
\* has not been used yet has the adjusted cursor, the source cursor on it,
\* the capacity asked for and the fault flag false.
C17_ConstructionAllOrNothing ==
    /\ pc = "ctor_err" =>
          /\ out = <<>> /\ hist = <<>> /\ result = <<>>
          /\ reader_pos = 0 /\ buf_size = 0 /\ ~is_error
    /\ (pc = "idle" /\ out = <<>>) =>
          /\ reader_pos = EndAdjust(src)
          /\ seek_pos = reader_pos
          /\ buf_size = cap
          /\ ~is_error

\* C17 witness: with_capacity failed in one of its repositioning seeks.
C17_Witness ==
    /\ pc = "ctor_err"
    /\ Len(src) >= 2
    /\ seek_pos = Len(src) - 1

\* C18 (strict progress): every call that returned Ok or a decoding error
\* left reader_pos strictly smaller than it found it, and the bytes between
\* the two cursors are the line, or the line preceded by LF or by CR LF.
C18_StrictProgress ==
    \A i \in 1..Len(out) :
        (out[i].kind = "Ok" \/ out[i].err = "InvalidData") =>
            /\ hist[i] < PosBefore(i)
            /\ LET used == SubSeq(src, hist[i] + 1, PosBefore(i)) IN
               \/ used = out[i].bytes
               \/ used = <<LF_BYTE>> \o out[i].bytes
               \/ used = <<CR_BYTE, LF_BYTE>> \o out[i].bytes

\* C18 witness: one call consumed a line with its CR LF, another a line
\* with its LF only.
C18_Witness ==
    \E i, j \in 1..Len(out) :
        /\ out[i].kind = "Ok" /\ out[j].kind = "Ok"
        /\ PosBefore(i) - hist[i] = Len(out[i].bytes) + 2
        /\ PosBefore(j) - hist[j] = Len(out[j].bytes) + 1
====
